---- MODULE Spec2Model ----
(***************************************************************************)
(* FLTreeOnodeManager (crimson/seastore): the onode manager that maps      *)
(* ghobject_t identifiers to onode_layout_t payloads held in an ordered    *)
(* tree.  Every manager call is one action; the tree collaborator and the  *)
(* FLTreeOnode handle are modelled by operators the calls use.             *)
(* MHashReaddirReply (messages): the payload encoding of a message and its *)
(* decoding at the receiver.                                               *)
(***************************************************************************)
EXTENDS Integers, Sequences, FiniteSets, TLC

\* ---------------------------------------------------------------- bounds
\* Number of distinct ghobject_t identifiers (their total order is 1 < 2 < ...).
NumHoids == 4
\* onode_layout_t contents are 0..MaxLayout; 0 is onode_layout_t{}.
MaxLayout == 1
\* Number of FLTreeOnode objects alive at once in the transaction.
MaxOnodes == 2
\* Longest vector handed to get_or_create_onodes / write_dirty.
MaxBatch == 2
\* Number of onodes, and longest vector, in the write-back specification.
DirtyOnodes == 3
\* Largest limit handed to list_onodes.
MaxLimit == 2
\* key_view_t::MAX_NS_OID_LENGTH, scaled down (lengths below are relative to it).
MAX_NS_OID_LENGTH == 3
\* MHashReaddirReply: payload words are 0..MaxWord; dir_contents holds at most
\* MaxEntries c_inode_info.
MaxWord == 1
MaxEntries == 2

Hoids == 1..NumHoids
\* Identifiers usable as scan bounds: one more, above every stored identifier.
ListBounds == 1..(NumHoids + 1)
Layouts == 0..MaxLayout
\* onode_layout_t{}: the value-initialised payload.
DefaultLayout == 0
OnodeIds == 1..MaxOnodes
Statuses == {"STABLE", "MUTATED", "DELETED"}

\* hoid.hobj.nspace.length() and hoid.hobj.oid.name.length() of identifier h.
\* h % 4 = 0: combined MAX+1; h % 4 = 1 and 3: exactly MAX; h % 4 = 2: small.
NspaceLen(h) == IF h % 4 = 1 THEN 0 ELSE 1
NameLen(h) ==
  CASE h % 4 = 0 -> MAX_NS_OID_LENGTH
    [] h % 4 = 1 -> MAX_NS_OID_LENGTH
    [] h % 4 = 2 -> 1
    [] OTHER     -> MAX_NS_OID_LENGTH - 1

VARIABLES
  tree,     \* the OnodeTree: a function from its keys to their onode_layout_t
  onodes,   \* the live FLTreeOnode objects: handle id -> [hoid, status]
  call,     \* the manager call made last, with its arguments
  ret,      \* what that call returned
  ops,      \* the tree / recorder operations that call issued, in order
  tree0,    \* tree when that call was made
  onodes0,  \* onodes when that call was made
  scan,     \* a caller's resumed scan: where it began, what it has gathered
  flight,   \* the batch method in progress: its elements issued and in flight
  msg       \* an MHashReaddirReply on its way from sender to receiver

vars == <<tree, onodes, call, ret, ops, tree0, onodes0, scan, flight, msg>>

\* ------------------------------------------------- small helpers
SetMin(S) == CHOOSE x \in S : \A y \in S : x <= y

\* The function f with key k bound to v (k added when new).
Bind(f, k, v) == [x \in DOMAIN f \cup {k} |-> IF x = k THEN v ELSE f[x]]
\* The function f without key k.
Unbind(f, k) == [x \in DOMAIN f \ {k} |-> f[x]]
\* The function f without the keys in K.
UnbindAll(f, K) == [x \in DOMAIN f \ K |-> f[x]]

Empty == [x \in {} |-> 0]

\* No scan under way, no batch in progress, no message.
NoScan == [start |-> 0, acc |-> <<>>, calls |-> 0]
NoFlight == [op |-> "none", next |-> 1, inflight |-> {}, acc |-> <<>>]
NoMsg == [phase |-> "none", ino |-> <<>>, dir_contents |-> <<>>, payload |-> <<>>,
          rino |-> <<>>, rcontents |-> <<>>, noff |-> 0]

\* The manager is between calls and no message is under way.
Idle == scan = NoScan /\ flight = NoFlight /\ msg = NoMsg

SeqRange(s) == {s[i] : i \in 1..Len(s)}

\* One logged collaborator operation.
Op(name, hoid, onode) == [op |-> name, hoid |-> hoid, onode |-> onode]

NoCall ==
  [op |-> "none", hoid |-> 0, hoids |-> <<>>, onode |-> 0, onodes |-> <<>>,
   start |-> 0, end |-> 0, limit |-> 0, layout |-> 0, fail |-> 0]

\* err is "ok" or the error the call failed with.
NoRet ==
  [err |-> "ok", found |-> FALSE, created |-> FALSE, onode |-> 0,
   onodes |-> <<>>, list |-> <<>>, next |-> 0]

Error(e) == [NoRet EXCEPT !.err = e]

\* ------------------------------------------- the tree collaborator
\* A cursor is the end-of-tree sentinel or stands on a key.
tree_end == [is_end |-> TRUE, ghobj |-> 0]
Cursor(k) == [is_end |-> FALSE, ghobj |-> k]

tree_contains(t, hoid) == hoid \in DOMAIN t

tree_find(t, hoid) == IF hoid \in DOMAIN t THEN Cursor(hoid) ELSE tree_end

\* Insert-or-find: an existing entry is returned as it is; a new entry's value
\* slot holds whatever the allocation left there (slot).
tree_insert(t, hoid, slot) ==
  IF hoid \in DOMAIN t
    THEN [tree |-> t, cursor |-> Cursor(hoid), created |-> FALSE]
    ELSE [tree |-> Bind(t, hoid, slot), cursor |-> Cursor(hoid), created |-> TRUE]

tree_erase(t, hoid) == Unbind(t, hoid)

tree_lower_bound(t, hoid) ==
  LET ge == {k \in DOMAIN t : k >= hoid}
  IN  IF ge = {} THEN tree_end ELSE Cursor(SetMin(ge))

tree_get_next(t, cursor) == tree_lower_bound(t, cursor.ghobj + 1)

\* ------------------------------------------------- FLTreeOnode
\* A new FLTreeOnode wraps the value of the entry for hoid; its status is STABLE.
FLTreeOnode(hoid) == [hoid |-> hoid, status |-> "STABLE"]

\* The id the next FLTreeOnode object gets.
NewOnodeId(os) == SetMin(OnodeIds \ DOMAIN os)

FreeOnodes(os) == Cardinality(OnodeIds \ DOMAIN os)

\* The manager state an operation works on: the tree, the onode objects and the
\* log of collaborator operations issued so far by the running call.
Mgr(t, os, log) == [tree |-> t, onodes |-> os, ops |-> log]

\* val->get_mutable_layout(trans) = layout: the write goes to the entry's value
\* and the onode becomes MUTATED.
get_mutable_layout(m, h, layout) ==
  [m EXCEPT !.tree = Bind(m.tree, m.onodes[h].hoid, layout),
            !.onodes = [m.onodes EXCEPT ![h].status = "MUTATED"]]

mark_delete(os, h) == [os EXCEPT ![h].status = "DELETED"]

\* flonode.populate_recorder(trans): the onode's payload goes to the
\* transaction's recorder.
populate_recorder(m, h) ==
  [m EXCEPT !.ops = Append(m.ops, Op("populate_recorder", m.onodes[h].hoid, h))]

\* ------------------------------------------- FLTreeOnodeManager
Out(m, r) == [m |-> m, ret |-> r]

Log(m, name, hoid, onode) == [m EXCEPT !.ops = Append(m.ops, Op(name, hoid, onode))]

contains_onode(m, hoid) ==
  Out(Log(m, "contains", hoid, 0),
      [NoRet EXCEPT !.found = tree_contains(m.tree, hoid)])

\* Variant: the end-of-tree check is missing.
get_onode_no_end_check(m, hoid) ==
  LET cursor == tree_find(m.tree, hoid)
      m1 == Log(m, "find", hoid, 0)
      val == NewOnodeId(m.onodes)
  IN  Out([m1 EXCEPT !.onodes = Bind(m.onodes, val, FLTreeOnode(cursor.ghobj))],
          [NoRet EXCEPT !.onode = val])

\* Variant: the lookup is made with the tree's insert, so a miss leaves an
\* entry behind.
get_onode_inserting(m, hoid) ==
  LET p == tree_insert(m.tree, hoid, DefaultLayout)
      m1 == Log(m, "find", hoid, 0)
      val == NewOnodeId(m.onodes)
  IN  IF p.created
        THEN Out([m1 EXCEPT !.tree = p.tree], Error("enoent"))
        ELSE Out([m1 EXCEPT !.onodes = Bind(m.onodes, val, FLTreeOnode(p.cursor.ghobj))],
                 [NoRet EXCEPT !.onode = val])

get_onode(m, hoid) ==
  LET cursor == tree_find(m.tree, hoid)
      m1 == Log(m, "find", hoid, 0)
      val == NewOnodeId(m.onodes)
  IN  IF cursor = tree_end
        THEN Out(m1, Error("enoent"))
        ELSE Out([m1 EXCEPT !.onodes = Bind(m.onodes, val, FLTreeOnode(cursor.ghobj))],
                 [NoRet EXCEPT !.onode = val])

\* Variant: the length check rejects a combined length equal to the maximum.
KeyTooLarge_ge(hoid) == NameLen(hoid) + NspaceLen(hoid) >= MAX_NS_OID_LENGTH

\* The length check that precedes the insert.
KeyTooLarge(hoid) == NameLen(hoid) + NspaceLen(hoid) > MAX_NS_OID_LENGTH

\* Variant: the payload is reset whether or not the entry was created.
after_insert_always_reset(m, p) ==
  LET val == NewOnodeId(m.onodes)
      m1 == [m EXCEPT !.onodes = Bind(m.onodes, val, FLTreeOnode(p.cursor.ghobj))]
  IN  Out(get_mutable_layout(m1, val, DefaultLayout),
          [NoRet EXCEPT !.onode = val, !.created = p.created])

\* Variant: a created entry is not reset; it keeps what the insert left in its
\* value space and its onode stays STABLE.
after_insert_no_reset(m, p) ==
  LET val == NewOnodeId(m.onodes)
      m1 == [m EXCEPT !.onodes = Bind(m.onodes, val, FLTreeOnode(p.cursor.ghobj))]
  IN  Out(m1, [NoRet EXCEPT !.onode = val, !.created = p.created])

\* Variant: the mutable layout is obtained before created is tested and
\* written only for a created entry.
after_insert_touch(m, p) ==
  LET val == NewOnodeId(m.onodes)
      m1 == [m EXCEPT !.onodes = Bind(m.onodes, val, FLTreeOnode(p.cursor.ghobj))]
      layout == IF p.created THEN DefaultLayout ELSE m.tree[p.cursor.ghobj]
  IN  Out(get_mutable_layout(m1, val, layout),
          [NoRet EXCEPT !.onode = val, !.created = p.created])

\* What get_or_create_onode does with the pair (cursor, created) the insert
\* returned; m already holds the tree after the insert.
after_insert(m, p) ==
  LET val == NewOnodeId(m.onodes)
      m1 == [m EXCEPT !.onodes = Bind(m.onodes, val, FLTreeOnode(p.cursor.ghobj))]
      m2 == IF p.created THEN get_mutable_layout(m1, val, DefaultLayout) ELSE m1
  IN  Out(m2, [NoRet EXCEPT !.onode = val, !.created = p.created])

get_or_create_onode(m, hoid, slot) ==
  IF KeyTooLarge(hoid)
    THEN Out(m, Error("value_too_large"))
    ELSE LET p == tree_insert(m.tree, hoid, slot)
         IN  after_insert([Log(m, "insert", hoid, 0) EXCEPT !.tree = p.tree], p)

\* Variant: results are collected at the front.
push_front(acc, onoderef) == <<onoderef>> \o acc

\* ret.push_back(std::move(onoderef))
push_back(acc, onoderef) == Append(acc, onoderef)

\* crimson::do_for_each over hoids: one get_or_create_onode after the other; the
\* first error ends the loop, and the vector of onodes collected so far goes
\* away with it.
RECURSIVE do_for_each_hoid(_, _, _, _)
do_for_each_hoid(m, hoids, slot, acc) ==
  IF hoids = <<>>
    THEN Out(m, [NoRet EXCEPT !.onodes = acc])
    ELSE LET r == get_or_create_onode(m, Head(hoids), slot)
         IN  IF r.ret.err # "ok"
               THEN Out([r.m EXCEPT !.onodes = UnbindAll(r.m.onodes, SeqRange(acc))],
                        Error(r.ret.err))
               ELSE do_for_each_hoid(r.m, Tail(hoids), slot,
                                     push_back(acc, r.ret.onode))

\* Variant: an error does not end the loop; the identifiers after the failing
\* one are still inserted, and the first error is reported at the end.
RECURSIVE keep_going_hoid(_, _, _, _, _)
keep_going_hoid(m, hoids, slot, acc, err) ==
  IF hoids = <<>>
    THEN IF err = "ok"
           THEN Out(m, [NoRet EXCEPT !.onodes = acc])
           ELSE Out([m EXCEPT !.onodes = UnbindAll(m.onodes, SeqRange(acc))], Error(err))
    ELSE LET r == get_or_create_onode(m, Head(hoids), slot)
         IN  IF r.ret.err # "ok"
               THEN keep_going_hoid(r.m, Tail(hoids), slot, acc,
                                    IF err = "ok" THEN r.ret.err ELSE err)
               ELSE keep_going_hoid(r.m, Tail(hoids), slot,
                                    push_back(acc, r.ret.onode), err)

get_or_create_onodes_keep_going(m, hoids, slot) ==
  keep_going_hoid(m, hoids, slot, <<>>, "ok")

get_or_create_onodes(m, hoids, slot) == do_for_each_hoid(m, hoids, slot, <<>>)

\* Variant: a MUTATED onode is erased as well as recorded.
write_dirty_one_erase_mutated(m, h, failing) ==
  LET flonode == m.onodes[h]
  IN  CASE flonode.status = "MUTATED" ->
             Out([populate_recorder(m, h)
                    EXCEPT !.tree = tree_erase(m.tree, flonode.hoid)], NoRet)
        [] flonode.status = "DELETED" ->
             IF failing
               THEN Out(Log(m, "erase_failed", flonode.hoid, h), Error("eagain"))
               ELSE Out([Log(m, "erase", flonode.hoid, h)
                           EXCEPT !.tree = tree_erase(m.tree, flonode.hoid)], NoRet)
        [] flonode.status = "STABLE" -> Out(m, NoRet)

\* The body of write_dirty's loop for one onode; failing says that the tree
\* fails the erase it is asked for.
write_dirty_one(m, h, failing) ==
  LET flonode == m.onodes[h]
  IN  CASE flonode.status = "MUTATED" -> Out(populate_recorder(m, h), NoRet)
        [] flonode.status = "DELETED" ->
             IF failing
               THEN Out(Log(m, "erase_failed", flonode.hoid, h), Error("eagain"))
               ELSE Out([Log(m, "erase", flonode.hoid, h)
                           EXCEPT !.tree = tree_erase(m.tree, flonode.hoid)], NoRet)
        [] flonode.status = "STABLE" -> Out(m, NoRet)

\* crimson::do_for_each over onodes; fail is the position whose erase the tree
\* fails (0: none).
RECURSIVE do_for_each_onode(_, _, _, _)
do_for_each_onode(m, batch, fail, i) ==
  IF i > Len(batch)
    THEN Out(m, NoRet)
    ELSE LET r == write_dirty_one(m, batch[i], fail = i)
         IN  IF r.ret.err # "ok"
               THEN r
               ELSE do_for_each_onode(r.m, batch, fail, i + 1)

\* Variant: a failed erase does not end the loop; the onodes after it are still
\* written back and the first error is reported at the end.
RECURSIVE keep_going_onode(_, _, _, _, _)
keep_going_onode(m, batch, fail, i, err) ==
  IF i > Len(batch)
    THEN Out(m, IF err = "ok" THEN NoRet ELSE Error(err))
    ELSE LET r == write_dirty_one(m, batch[i], fail = i)
         IN  keep_going_onode(r.m, batch, fail, i + 1,
                              IF err = "ok" THEN r.ret.err ELSE err)

write_dirty_keep_going(m, batch, fail) == keep_going_onode(m, batch, fail, 1, "ok")

write_dirty(m, batch, fail) == do_for_each_onode(m, batch, fail, 1)

\* Variant: the entry is erased from the tree at once.
erase_onode_eager(m, h) ==
  Out([Log(m, "erase", m.onodes[h].hoid, h)
         EXCEPT !.onodes = mark_delete(m.onodes, h),
                !.tree = tree_erase(m.tree, m.onodes[h].hoid)], NoRet)

\* Variant: an onode with a pending write keeps its status.
erase_onode_keep_mutated(m, h) ==
  Out([m EXCEPT !.onodes = IF m.onodes[h].status = "MUTATED"
                             THEN m.onodes ELSE mark_delete(m.onodes, h)], NoRet)

erase_onode(m, h) == Out([m EXCEPT !.onodes = mark_delete(m.onodes, h)], NoRet)

\* Variant: the quota is not decremented.
list_step_no_decrement(m, end, st) ==
  IF st.current_cursor.is_end \/ st.current_cursor.ghobj >= end
    THEN [st EXCEPT !.next = end, !.done = TRUE]
    ELSE IF st.to_list = 0
      THEN [st EXCEPT !.next = st.current_cursor.ghobj, !.done = TRUE]
      ELSE [st EXCEPT !.list = Append(st.list, st.current_cursor.ghobj),
                      !.ops = Append(st.ops, Op("get_next", st.current_cursor.ghobj, 0)),
                      !.current_cursor = tree_get_next(m.tree, st.current_cursor)]

\* Variant: the range check lets the identifier equal to end through.
list_step_end_inclusive(m, end, st) ==
  IF st.current_cursor.is_end \/ st.current_cursor.ghobj > end
    THEN [st EXCEPT !.next = end, !.done = TRUE]
    ELSE IF st.to_list = 0
      THEN [st EXCEPT !.next = st.current_cursor.ghobj, !.done = TRUE]
      ELSE [st EXCEPT !.list = Append(st.list, st.current_cursor.ghobj),
                      !.ops = Append(st.ops, Op("get_next", st.current_cursor.ghobj, 0)),
                      !.to_list = st.to_list - 1,
                      !.current_cursor = tree_get_next(m.tree, st.current_cursor)]

\* Variant: the quota is tested before the end of the range.
list_step_quota_first(m, end, st) ==
  IF st.to_list = 0 /\ ~st.current_cursor.is_end
    THEN [st EXCEPT !.next = st.current_cursor.ghobj, !.done = TRUE]
    ELSE IF st.current_cursor.is_end \/ st.current_cursor.ghobj >= end
      THEN [st EXCEPT !.next = end, !.done = TRUE]
      ELSE [st EXCEPT !.list = Append(st.list, st.current_cursor.ghobj),
                      !.ops = Append(st.ops, Op("get_next", st.current_cursor.ghobj, 0)),
                      !.to_list = st.to_list - 1,
                      !.current_cursor = tree_get_next(m.tree, st.current_cursor)]

\* Variant: the quota test is missing.
list_step_no_quota(m, end, st) ==
  IF st.current_cursor.is_end \/ st.current_cursor.ghobj >= end
    THEN [st EXCEPT !.next = end, !.done = TRUE]
    ELSE [st EXCEPT !.list = Append(st.list, st.current_cursor.ghobj),
                    !.ops = Append(st.ops, Op("get_next", st.current_cursor.ghobj, 0)),
                    !.to_list = st.to_list - 1,
                    !.current_cursor = tree_get_next(m.tree, st.current_cursor)]

\* Variant: when the quota runs out, next-start is the identifier after the
\* one under the cursor.
list_step_skip(m, end, st) ==
  IF st.current_cursor.is_end \/ st.current_cursor.ghobj >= end
    THEN [st EXCEPT !.next = end, !.done = TRUE]
    ELSE IF st.to_list = 0
      THEN LET after == tree_get_next(m.tree, st.current_cursor)
           IN  [st EXCEPT !.next = IF after.is_end THEN end ELSE after.ghobj,
                          !.done = TRUE]
      ELSE [st EXCEPT !.list = Append(st.list, st.current_cursor.ghobj),
                      !.ops = Append(st.ops, Op("get_next", st.current_cursor.ghobj, 0)),
                      !.to_list = st.to_list - 1,
                      !.current_cursor = tree_get_next(m.tree, st.current_cursor)]

\* One round of list_onodes' do_until body. st holds the loop's captured
\* variables; done says the body returned true.
list_step(m, end, st) ==
  IF st.current_cursor.is_end \/ st.current_cursor.ghobj >= end
    THEN [st EXCEPT !.next = end, !.done = TRUE]
    ELSE IF st.to_list = 0
      THEN [st EXCEPT !.next = st.current_cursor.ghobj, !.done = TRUE]
      ELSE [st EXCEPT !.list = Append(st.list, st.current_cursor.ghobj),
                      !.ops = Append(st.ops, Op("get_next", st.current_cursor.ghobj, 0)),
                      !.to_list = st.to_list - 1,
                      !.current_cursor = tree_get_next(m.tree, st.current_cursor)]

RECURSIVE do_until(_, _, _)
do_until(m, end, st) ==
  LET st1 == list_step(m, end, st)
  IN  IF st1.done THEN st1 ELSE do_until(m, end, st1)

list_onodes(m, start, end, limit) ==
  LET cursor == tree_lower_bound(m.tree, start)
      m1 == Log(m, "lower_bound", start, 0)
      st == do_until(m1, end,
                     [to_list |-> limit, current_cursor |-> cursor, list |-> <<>>,
                      next |-> 0, ops |-> m1.ops, done |-> FALSE])
  IN  Out([m1 EXCEPT !.ops = st.ops],
          [NoRet EXCEPT !.list = st.list, !.next = st.next])

\* ------------------------------------------------------- actions
\* Sequences over S of length at most n.
SeqsUpTo(S, n) == UNION {[1..k -> S] : k \in 0..n}

Init ==
  /\ tree = Empty
  /\ onodes = Empty
  /\ call = NoCall
  /\ ret = NoRet
  /\ ops = <<>>
  /\ tree0 = Empty
  /\ onodes0 = Empty
  /\ Idle

\* The call c returns outcome r.
Returns(c, r) ==
  /\ tree' = r.m.tree
  /\ onodes' = r.m.onodes
  /\ ops' = r.m.ops
  /\ ret' = r.ret
  /\ call' = c
  /\ tree0' = tree
  /\ onodes0' = onodes

\* The call c runs to completion with outcome r.
Done(c, r) == Returns(c, r) /\ UNCHANGED <<scan, flight, msg>>

Now == Mgr(tree, onodes, <<>>)

ContainsOnode ==
  \E hoid \in Hoids :
    Done([NoCall EXCEPT !.op = "contains_onode", !.hoid = hoid],
         contains_onode(Now, hoid))

GetOnode ==
  \E hoid \in Hoids :
    /\ FreeOnodes(onodes) >= 1
    /\ Done([NoCall EXCEPT !.op = "get_onode", !.hoid = hoid],
            get_onode(Now, hoid))

GetOrCreateOnode ==
  \E hoid \in Hoids, slot \in Layouts :
    /\ FreeOnodes(onodes) >= 1
    /\ Done([NoCall EXCEPT !.op = "get_or_create_onode", !.hoid = hoid],
            get_or_create_onode(Now, hoid, slot))

GetOrCreateOnodes ==
  \E hoids \in SeqsUpTo(Hoids, MaxBatch), slot \in Layouts :
    /\ FreeOnodes(onodes) >= Len(hoids)
    /\ Done([NoCall EXCEPT !.op = "get_or_create_onodes", !.hoids = hoids],
            get_or_create_onodes(Now, hoids, slot))

\* write_dirty called with a vector of at most n of the live onodes (an onode
\* may be named more than once).
WriteDirtyIn(n) ==
  \E batch \in SeqsUpTo(DOMAIN onodes, n) :
    \E fail \in 0..Len(batch) :
      /\ fail # 0 => onodes[batch[fail]].status = "DELETED"
      /\ Done([NoCall EXCEPT !.op = "write_dirty", !.onodes = batch, !.fail = fail],
              write_dirty(Now, batch, fail))

WriteDirty == WriteDirtyIn(MaxBatch)

EraseOnode ==
  \E h \in DOMAIN onodes :
    Done([NoCall EXCEPT !.op = "erase_onode", !.onode = h],
         erase_onode(Now, h))

\* list_onodes called with start, end and limit drawn from the given sets.
ListOnodesIn(starts, ends, limits) ==
  \E start \in starts, end \in ends, limit \in limits :
    Done([NoCall EXCEPT !.op = "list_onodes", !.start = start, !.end = end,
                        !.limit = limit],
         list_onodes(Now, start, end, limit))

\* Any range, any limit.
ListOnodes == ListOnodesIn(ListBounds, ListBounds, 0..MaxLimit)

\* A page of a scan that runs to the end of the key space.
ScanOnodes == ListOnodesIn(ListBounds, {NumHoids + 1}, {MaxLimit})

\* The caller writes a payload through an onode it holds:
\* onode->get_mutable_layout(trans) = layout.
MutateLayout ==
  \E h \in DOMAIN onodes, layout \in Layouts :
    /\ onodes[h].hoid \in DOMAIN tree
    /\ Done([NoCall EXCEPT !.op = "get_mutable_layout", !.onode = h,
                           !.layout = layout],
            Out(get_mutable_layout(Now, h, layout), NoRet))

\* The transaction ends: every OnodeRef it produced is released.
EndTransaction ==
  /\ onodes # Empty
  /\ Done([NoCall EXCEPT !.op = "end_transaction"],
          Out(Mgr(tree, Empty, <<>>), NoRet))

Next ==
  \/ ContainsOnode
  \/ GetOnode
  \/ GetOrCreateOnode
  \/ GetOrCreateOnodes
  \/ WriteDirty
  \/ EraseOnode
  \/ ScanOnodes
  \/ MutateLayout
  \/ EndTransaction

Spec == Init /\ [][Next]_vars

\* Listing on its own: every tree the manager can have built, every range and
\* limit.
ValidHoids == {h \in Hoids : ~KeyTooLarge(h)}

InitList ==
  /\ tree \in UNION {[K -> Layouts] : K \in SUBSET ValidHoids}
  /\ onodes = Empty
  /\ call = NoCall
  /\ ret = NoRet
  /\ ops = <<>>
  /\ tree0 = tree
  /\ onodes0 = Empty
  /\ Idle

NextList == ListOnodes

SpecList == InitList /\ [][NextList]_vars

\* The manager between calls, with one of the given trees and one of the
\* given sets of onodes.
Poised(trees, handles) ==
  /\ tree \in trees
  /\ onodes \in handles
  /\ call = NoCall
  /\ ret = NoRet
  /\ ops = <<>>
  /\ tree0 = tree
  /\ onodes0 = onodes
  /\ Idle

\* The trees whose entries all hold the default payload.
DefaultTrees == {[k \in K |-> DefaultLayout] : K \in SUBSET ValidHoids}

\* The read-only calls on their own: one call, with every identifier, range
\* and limit, on every tree the manager can have built, while the transaction
\* holds no onode or one of any status.
InitRead ==
  Poised(UNION {[K -> Layouts] : K \in SUBSET ValidHoids},
         {Empty} \cup [{1} -> [hoid : ValidHoids, status : Statuses]])

NextRead ==
  \/ call.op = "none" /\ ContainsOnode
  \/ call.op = "none" /\ GetOnode
  \/ call.op = "none" /\ ListOnodes

SpecRead == InitRead /\ [][NextRead]_vars

\* A caller scans [start, end) in pages: it calls list_onodes(start, end,
\* limit) and, as long as the next-start it gets back is not end, calls again
\* with that next-start in place of start. ScanCalls caps the number of calls
\* the model follows (a scan with limit 0 never gets anywhere).
ScanCalls == NumHoids + 1

StartScan ==
  \E start \in ListBounds, end \in ListBounds, limit \in 0..MaxLimit :
    LET r == list_onodes(Now, start, end, limit)
    IN  /\ scan.calls = 0
        /\ Returns([NoCall EXCEPT !.op = "list_onodes", !.start = start,
                                  !.end = end, !.limit = limit], r)
        /\ scan' = [start |-> start, acc |-> r.ret.list, calls |-> 1]
        /\ UNCHANGED <<flight, msg>>

ResumeScan ==
  LET r == list_onodes(Now, ret.next, call.end, call.limit)
  IN  /\ scan.calls > 0 /\ scan.calls < ScanCalls
      /\ ret.next # call.end
      /\ Returns([call EXCEPT !.start = ret.next], r)
      /\ scan' = [scan EXCEPT !.acc = scan.acc \o r.ret.list,
                              !.calls = scan.calls + 1]
      /\ UNCHANGED <<flight, msg>>

NextScan ==
  \/ StartScan
  \/ ResumeScan

\* The caller goes on calling as long as it has not been told end, and every
\* call returns.
\* (The payloads play no part in a scan: the trees hold the default one.)
InitScan == Poised(DefaultTrees, {Empty})

SpecScan == InitScan /\ [][NextScan]_vars /\ WF_vars(ResumeScan)

\* ------------------------------------------- batch methods, step by step
\* Variant: the batch methods run their elements with parallel_for_each.
batch_loop_parallel == "parallel_for_each"

\* The loop get_or_create_onodes and write_dirty run over their vector.
batch_loop == "do_for_each"

\* Whether the loop may start the operation of its next element while those
\* in inflight have not completed: do_for_each waits for the future of the
\* element before, parallel_for_each starts them all.
MayIssue(loop, inflight) == loop = "parallel_for_each" \/ inflight = {}

\* The vector of the batch in progress.
Items == IF flight.op = "write_dirty" THEN call.onodes ELSE call.hoids

\* The elements whose operation has completed.
Completed == (1..(flight.next - 1)) \ flight.inflight

\* A batch method is called: nothing is issued yet.
StartFlight(c) ==
  /\ flight = NoFlight
  /\ call' = c
  /\ ret' = NoRet
  /\ ops' = <<>>
  /\ tree0' = tree
  /\ onodes0' = onodes
  /\ flight' = [NoFlight EXCEPT !.op = c.op]
  /\ UNCHANGED <<tree, onodes, scan, msg>>

StartGetOrCreateOnodes ==
  \E hoids \in SeqsUpTo(Hoids, MaxBatch), slot \in Layouts :
    /\ call.op = "none"
    /\ FreeOnodes(onodes) >= Len(hoids)
    /\ StartFlight([NoCall EXCEPT !.op = "get_or_create_onodes", !.hoids = hoids,
                                  !.layout = slot])

StartWriteDirty ==
  \E batch \in SeqsUpTo(DOMAIN onodes, MaxBatch) :
    \E fail \in 0..Len(batch) :
      /\ call.op = "none"
      /\ fail # 0 => onodes[batch[fail]].status = "DELETED"
      /\ StartFlight([NoCall EXCEPT !.op = "write_dirty", !.onodes = batch,
                                    !.fail = fail])

\* The loop starts the operation of its next element.
Issue ==
  /\ flight.op # "none"
  /\ ret.err = "ok"
  /\ flight.next <= Len(Items)
  /\ MayIssue(batch_loop, flight.inflight)
  /\ flight' = [flight EXCEPT !.next = flight.next + 1,
                              !.inflight = flight.inflight \cup {flight.next}]
  /\ UNCHANGED <<tree, onodes, call, ret, ops, tree0, onodes0, scan, msg>>

\* The operation of an element in flight completes: its effect on the tree
\* and its continuation (push_back, or the error) take place.
Complete ==
  \E i \in flight.inflight :
    LET m == Mgr(tree, onodes, ops)
        r == IF flight.op = "write_dirty"
               THEN write_dirty_one(m, call.onodes[i], call.fail = i)
               ELSE get_or_create_onode(m, call.hoids[i], call.layout)
    IN  /\ tree' = r.m.tree
        /\ onodes' = r.m.onodes
        /\ ops' = r.m.ops
        /\ ret' = IF ret.err = "ok" /\ r.ret.err # "ok" THEN Error(r.ret.err) ELSE ret
        /\ flight' = [flight EXCEPT
                        !.inflight = flight.inflight \ {i},
                        !.acc = IF r.ret.onode = 0 THEN flight.acc
                                ELSE push_back(flight.acc, r.ret.onode)]
        /\ UNCHANGED <<call, tree0, onodes0, scan, msg>>

\* The loop is over (every element done, or an error and nothing in flight):
\* the method's future resolves; on error the onodes collected go away.
Finish ==
  /\ flight.op # "none"
  /\ flight.inflight = {}
  /\ ret.err # "ok" \/ flight.next > Len(Items)
  /\ ret' = IF ret.err = "ok" THEN [NoRet EXCEPT !.onodes = flight.acc] ELSE ret
  /\ onodes' = IF ret.err = "ok" THEN onodes
               ELSE UnbindAll(onodes, SeqRange(flight.acc))
  /\ flight' = NoFlight
  /\ UNCHANGED <<tree, call, ops, tree0, onodes0, scan, msg>>

NextFlight ==
  \/ StartGetOrCreateOnodes
  \/ StartWriteDirty
  \/ Issue
  \/ Complete
  \/ Finish

\* One batch call followed step by step: get_or_create_onodes on any tree in a
\* transaction that holds no onode yet, or write_dirty in a transaction that
\* holds MaxOnodes onodes of any status over a full tree (onode h names one of
\* the first h identifiers: any other assignment is this one with the
\* identifiers renamed).
InitFlight ==
  \/ Poised(DefaultTrees, {Empty})
  \/ Poised({[k \in ValidHoids |-> DefaultLayout]},
            {os \in [OnodeIds -> [hoid : ValidHoids, status : Statuses]] :
               \A h \in OnodeIds : os[h].hoid <= h})

SpecFlight == InitFlight /\ [][NextFlight]_vars

\* Write-back on its own: DirtyOnodes onodes of any status over a full tree,
\* and every vector of them; the pass is run once, as it is once per
\* transaction. Onode h names one of the first h identifiers: any other
\* assignment is this one with the identifiers renamed.
InitDirty ==
  /\ tree = [k \in ValidHoids |-> DefaultLayout]
  /\ onodes \in {os \in [1..DirtyOnodes -> [hoid : ValidHoids, status : Statuses]] :
                  \A h \in 1..DirtyOnodes : os[h].hoid <= h}
  /\ call = NoCall
  /\ ret = NoRet
  /\ ops = <<>>
  /\ tree0 = tree
  /\ onodes0 = onodes
  /\ Idle

NextDirty == call.op # "write_dirty" /\ WriteDirtyIn(DirtyOnodes)

SpecDirty == InitDirty /\ [][NextDirty]_vars

\* ------------------------------------------------ MHashReaddirReply
\* The payload is a sequence of 4-byte words. sizeof(ino) and sizeof(n), in
\* words: inodeno_t is 8 bytes, int is 4.
SizeofIno == 2
SizeofInt == 1

Words == 0..MaxWord
Inos == [1..SizeofIno -> Words]

\* c_inode_info::_encode appends the entry's bytes: one word here.
c_inode_info_encode(ci) == <<ci>>

\* payload.copy(off, len, dest): the len words at offset off, or a fault when
\* they are not all inside the payload.
Copy(payload, off, len) ==
  IF off < 0 \/ off + len > Len(payload)
    THEN "fault"
    ELSE SubSeq(payload, off + 1, off + len)

RECURSIVE encode_entries(_)
encode_entries(ls) ==
  IF ls = <<>> THEN <<>>
  ELSE c_inode_info_encode(Head(ls)) \o encode_entries(Tail(ls))

\* encode_payload: ino, then n = dir_contents.size(), then every entry.
encode_payload(ino, dir_contents) ==
  ino \o <<Len(dir_contents)>> \o encode_entries(dir_contents)

\* for (i = 0; i < n; i++) { ci->_decode(payload, off); push_back(ci); }
\* _decode reads the entry at off and moves off past it; past the end of the
\* payload it faults.
RECURSIVE decode_entries(_, _, _, _)
decode_entries(payload, off, n, acc) ==
  IF n <= 0 THEN acc
  ELSE IF Copy(payload, off, 1) = "fault" THEN "fault"
  ELSE decode_entries(payload, off + 1, n - 1, Append(acc, payload[off + 1]))

\* decode_payload. The count is copied from offset n while n is still
\* uninitialised: n0 is the value n happens to hold.
decode_payload(payload, n0) ==
  LET ino == Copy(payload, 0, SizeofIno)
      off1 == SizeofIno
      n == Copy(payload, n0, SizeofInt)
      off2 == off1 + SizeofInt
      ls == IF n = "fault" THEN "fault" ELSE decode_entries(payload, off2, n[1], <<>>)
  IN  IF ino = "fault" \/ ls = "fault"
        THEN [phase |-> "fault", rino |-> <<>>, rcontents |-> <<>>, noff |-> n0]
        ELSE [phase |-> "decoded", rino |-> ino, rcontents |-> ls, noff |-> n0]

\* The values an uninitialised int may hold: below zero, every offset into
\* the longest payload, and beyond its end.
Indeterminate == (0 - 1)..(SizeofIno + SizeofInt + MaxEntries)

\* The sender has built a reply for ino with the entries ls.
InitMsg ==
  /\ tree = Empty
  /\ onodes = Empty
  /\ call = NoCall
  /\ ret = NoRet
  /\ ops = <<>>
  /\ tree0 = Empty
  /\ onodes0 = Empty
  /\ scan = NoScan
  /\ flight = NoFlight
  /\ msg \in {[NoMsg EXCEPT !.phase = "built", !.ino = ino, !.dir_contents = ls] :
                ino \in Inos, ls \in SeqsUpTo(Words, MaxEntries)}

EncodePayload ==
  /\ msg.phase = "built"
  /\ msg' = [msg EXCEPT !.phase = "encoded",
                        !.payload = encode_payload(msg.ino, msg.dir_contents)]
  /\ UNCHANGED <<tree, onodes, call, ret, ops, tree0, onodes0, scan, flight>>

\* The receiver decodes the payload into a message of its own.
DecodePayload ==
  \E n0 \in Indeterminate :
    LET d == decode_payload(msg.payload, n0)
    IN  /\ msg.phase = "encoded"
        /\ msg' = [msg EXCEPT !.phase = d.phase, !.rino = d.rino,
                              !.rcontents = d.rcontents, !.noff = d.noff]
        /\ UNCHANGED <<tree, onodes, call, ret, ops, tree0, onodes0, scan, flight>>

NextMsg ==
  \/ EncodePayload
  \/ DecodePayload

SpecMsg == InitMsg /\ [][NextMsg]_vars

TypeOK ==
  /\ DOMAIN tree \subseteq Hoids
  /\ \A k \in DOMAIN tree : tree[k] \in Layouts /\ ~KeyTooLarge(k)
  /\ DOMAIN onodes \subseteq Nat
  /\ \A h \in DOMAIN onodes : onodes[h].hoid \in Hoids /\ onodes[h].status \in Statuses

\* ----------------------------------------------------- properties
\* The onodes of status st among os.
WithStatus(os, st) == {h \in DOMAIN os : os[h].status = st}

\* The identifiers that some onode of os marks deleted.
MarkedDeleted(os) == {os[h].hoid : h \in WithStatus(os, "DELETED")}

\* The onodes the logged operations named op were issued for.
IssuedFor(name) == {ops[i].onode : i \in {j \in 1..Len(ops) : ops[j].op = name}}

\* The identifiers the logged operations named op were issued for, in order.
RECURSIVE HoidsOf(_, _)
HoidsOf(log, name) ==
  IF log = <<>> THEN <<>>
  ELSE (IF Head(log).op = name THEN <<Head(log).hoid>> ELSE <<>>)
         \o HoidsOf(Tail(log), name)

\* contains(k) and get(k) as a caller would see them in the current state.
Found(k) == contains_onode(Now, k).ret.found
Gettable(k) == get_onode(Mgr(tree, Empty, <<>>), k).ret.err = "ok"

\* C1: Deferred deletion. An entry whose onode was marked by erase stays in the
\* tree across erase itself and across contains / get / list / get_or_create
\* calls (contains still returns true, get still succeeds); once a write_dirty
\* pass over a vector holding the marked onode has completed, contains returns
\* false and get fails with enoent.
C1_DeferredDeletion ==
  /\ call.op = "erase_onode" =>
       \A k \in DOMAIN tree0 : k \in DOMAIN tree /\ Found(k) /\ Gettable(k)
  /\ call.op \in {"contains_onode", "get_onode", "list_onodes",
                  "get_or_create_onode", "get_or_create_onodes"} =>
       \A k \in MarkedDeleted(onodes0) \cap DOMAIN tree0 :
          /\ k \in DOMAIN tree /\ Found(k) /\ Gettable(k)
          /\ call.op = "contains_onode" /\ call.hoid = k => ret.found
          /\ call.op = "get_onode" /\ call.hoid = k => ret.err = "ok"
  /\ call.op = "write_dirty" /\ ret.err = "ok" =>
       \A h \in SeqRange(call.onodes) \cap WithStatus(onodes0, "DELETED") :
          /\ ~Found(onodes0[h].hoid)
          /\ get_onode(Mgr(tree, Empty, <<>>), onodes0[h].hoid).ret.err = "enoent"

\* C1 witness: a completed write_dirty pass has just removed an entry that an
\* onode had marked deleted.
C1_Witness ==
  /\ call.op = "write_dirty" /\ ret.err = "ok"
  /\ \E h \in SeqRange(call.onodes) \cap WithStatus(onodes0, "DELETED") :
       onodes0[h].hoid \in DOMAIN tree0 /\ onodes0[h].hoid \notin DOMAIN tree

\* C2: Write-back status dispatch. In a completed write_dirty pass an erase is
\* issued exactly for the DELETED onodes of the vector, a recording exactly for
\* the MUTATED ones (none of which gets an erase), nothing for a STABLE one;
\* the entries that leave the tree are exactly those of the DELETED onodes and
\* the other entries keep their payload.
C2_WriteBackDispatch ==
  call.op = "write_dirty" /\ ret.err = "ok" =>
    LET batch == SeqRange(call.onodes)
        del == batch \cap WithStatus(onodes0, "DELETED")
        mut == batch \cap WithStatus(onodes0, "MUTATED")
        stb == batch \cap WithStatus(onodes0, "STABLE")
    IN  /\ IssuedFor("erase") = del
        /\ IssuedFor("populate_recorder") = mut
        /\ \A i \in 1..Len(ops) :
             ops[i].op \in {"erase", "populate_recorder"} /\ ops[i].onode \notin stb
        /\ Len(ops) = Cardinality({i \in 1..Len(call.onodes) :
                                     call.onodes[i] \notin stb})
        /\ DOMAIN tree = DOMAIN tree0 \ {onodes0[h].hoid : h \in del}
        /\ \A k \in DOMAIN tree : tree[k] = tree0[k]
        /\ onodes = onodes0

\* C2 witness: a completed pass over a vector holding a STABLE, a MUTATED and
\* a DELETED onode of three different entries.
C2_Witness ==
  /\ call.op = "write_dirty" /\ ret.err = "ok"
  /\ \E a, b, c \in SeqRange(call.onodes) :
       /\ onodes0[a].status = "STABLE"
       /\ onodes0[b].status = "MUTATED"
       /\ onodes0[c].status = "DELETED"
       /\ onodes0[a].hoid # onodes0[b].hoid
       /\ onodes0[a].hoid # onodes0[c].hoid
       /\ onodes0[b].hoid # onodes0[c].hoid
       /\ DOMAIN tree = DOMAIN tree0 \ {onodes0[c].hoid}
       /\ IssuedFor("populate_recorder") = {b}

\* C3: Idempotent upsert. A get_or_create_onode that succeeds creates an entry
\* exactly when the tree held none for the identifier; when it held one, the
\* tree (keys and payloads) is left as it was. No call other than write_dirty
\* removes an entry, so only the first of a run of calls creates.
C3_IdempotentUpsert ==
  /\ call.op = "get_or_create_onode" /\ ret.err = "ok" =>
       /\ ret.created <=> call.hoid \notin DOMAIN tree0
       /\ ~ret.created => tree = tree0
       /\ DOMAIN tree = DOMAIN tree0 \cup {call.hoid}
       /\ \A k \in DOMAIN tree0 \ {call.hoid} : tree[k] = tree0[k]
       /\ HoidsOf(ops, "insert") = <<call.hoid>>
  /\ call.op # "write_dirty" => DOMAIN tree0 \subseteq DOMAIN tree

\* C3 witness: a later get_or_create_onode finds the entry and the payload
\* written to it since it was created.
C3_Witness ==
  /\ call.op = "get_or_create_onode" /\ ret.err = "ok" /\ ~ret.created
  /\ tree[call.hoid] # DefaultLayout

\* C4: Length boundary. get_or_create_onode fails with value_too_large
\* exactly when the name and namespace lengths add up to more than the
\* maximum; it then issues no tree operation, leaves tree and onodes as they
\* were and returns no onode.
C4_LengthBoundary ==
  call.op = "get_or_create_onode" =>
    /\ ret.err = "value_too_large" <=>
         NameLen(call.hoid) + NspaceLen(call.hoid) > MAX_NS_OID_LENGTH
    /\ ret.err = "value_too_large" =>
         ops = <<>> /\ tree = tree0 /\ onodes = onodes0 /\ ret.onode = 0
    /\ ret.err = "ok" => ret.onode \in DOMAIN onodes

\* C4 witness: an identifier one over the maximum has been rejected while the
\* tree holds entries.
C4_Witness ==
  /\ call.op = "get_or_create_onode" /\ ret.err = "value_too_large"
  /\ NameLen(call.hoid) + NspaceLen(call.hoid) = MAX_NS_OID_LENGTH + 1
  /\ tree # Empty

\* The tree identifiers k with start <= k < end.
RangeKeys(t, start, end) == {k \in DOMAIN t : start <= k /\ k < end}

\* The members of S in ascending order.
RECURSIVE Ascending(_)
Ascending(S) ==
  IF S = {} THEN <<>> ELSE <<SetMin(S)>> \o Ascending(S \ {SetMin(S)})

\* The first n members of s, or all of s when it is shorter.
Take(s, n) == SubSeq(s, 1, IF n < Len(s) THEN n ELSE Len(s))

\* Where the scan's cursor stands once the returned identifiers are emitted.
CursorAfter(t, start, emitted) ==
  IF emitted = <<>>
    THEN tree_lower_bound(t, start)
    ELSE tree_get_next(t, Cursor(emitted[Len(emitted)]))

\* C5: Pagination correctness. list_onodes(start, end, limit) returns the
\* first min(limit, n) of the n tree identifiers in [start, end), ascending;
\* next-start is the (limit+1)-th of them when n > limit and end otherwise.
C5_Pagination ==
  call.op = "list_onodes" =>
    LET all == Ascending(RangeKeys(tree0, call.start, call.end))
    IN  /\ ret.err = "ok"
        /\ ret.list = Take(all, call.limit)
        /\ ret.next = IF Len(all) > call.limit THEN all[call.limit + 1]
                                               ELSE call.end

\* C5 witness: a full page of more than one identifier has been returned and
\* an identifier of the range is left over as next-start.
C5_Witness ==
  /\ call.op = "list_onodes"
  /\ Len(ret.list) = call.limit /\ call.limit > 1
  /\ ret.next \in RangeKeys(tree0, call.start, call.end)
  /\ ret.next + 1 < call.end

\* C6: Range boundary exclusivity. list_onodes returns no identifier >= end;
\* when the scan stops with the cursor at tree end or on an identifier >= end,
\* next-start is end whatever quota is left; start >= end gives an empty
\* result and next-start end.
C6_RangeExclusive ==
  call.op = "list_onodes" =>
    LET cursor == CursorAfter(tree0, call.start, ret.list)
    IN  /\ \A i \in 1..Len(ret.list) : ret.list[i] < call.end
        /\ (cursor.is_end \/ cursor.ghobj >= call.end) => ret.next = call.end
        /\ call.start >= call.end => ret.list = <<>> /\ ret.next = call.end

\* C6 witness: the scan has stopped on a stored identifier >= end with quota
\* left, after returning something.
C6_Witness ==
  /\ call.op = "list_onodes"
  /\ ret.list # <<>> /\ Len(ret.list) < call.limit
  /\ ~CursorAfter(tree0, call.start, ret.list).is_end
  /\ CursorAfter(tree0, call.start, ret.list).ghobj >= call.end
  /\ ret.next = call.end

\* Whether position i of hoids is the first one naming its identifier.
FirstOccurrence(hoids, i) == \A j \in 1..(i - 1) : hoids[j] # hoids[i]

\* C7: Batch order preservation. A get_or_create_onodes that succeeds returns
\* one onode per input position, the i-th for hoids[i]; an identifier is
\* created at its first occurrence when the tree did not hold it (that onode is
\* MUTATED) and found everywhere else (STABLE).
C7_BatchOrder ==
  call.op = "get_or_create_onodes" /\ ret.err = "ok" =>
    /\ Len(ret.onodes) = Len(call.hoids)
    /\ \A i \in 1..Len(call.hoids) :
         /\ ret.onodes[i] \in DOMAIN onodes \ DOMAIN onodes0
         /\ onodes[ret.onodes[i]].hoid = call.hoids[i]
         /\ onodes[ret.onodes[i]].status = "MUTATED" <=>
              call.hoids[i] \notin DOMAIN tree0 /\ FirstOccurrence(call.hoids, i)
         /\ onodes[ret.onodes[i]].status \in {"MUTATED", "STABLE"}
         /\ \A j \in 1..Len(call.hoids) : i # j => ret.onodes[i] # ret.onodes[j]
    /\ HoidsOf(ops, "insert") = call.hoids

\* C7 witness: a batch of an existing and a new identifier, the larger first.
C7_Witness ==
  /\ call.op = "get_or_create_onodes" /\ ret.err = "ok"
  /\ Len(call.hoids) > 1
  /\ call.hoids[1] > call.hoids[2]
  /\ call.hoids[1] \in DOMAIN tree0
  /\ call.hoids[2] \notin DOMAIN tree0

\* C7 second case, the same identifier twice: reached as well.
C7_Duplicate ==
  /\ call.op = "get_or_create_onodes" /\ ret.err = "ok"
  /\ Len(call.hoids) > 1
  /\ call.hoids[1] = call.hoids[2]
  /\ call.hoids[1] \notin DOMAIN tree0

\* C8: Lookup outcome. get_onode fails with enoent exactly when the tree holds
\* no entry for the identifier; otherwise it returns a new onode, STABLE, for
\* that entry (whose payload is the stored one), and the tree is untouched.
C8_LookupOutcome ==
  call.op = "get_onode" =>
    /\ ret.err \in {"ok", "enoent"}
    /\ ret.err = "enoent" <=> call.hoid \notin DOMAIN tree0
    /\ ret.err = "enoent" => onodes = onodes0 /\ ret.onode = 0
    /\ ret.err = "ok" =>
         /\ ret.onode \in DOMAIN onodes \ DOMAIN onodes0
         /\ onodes[ret.onode] = [hoid |-> call.hoid, status |-> "STABLE"]
         /\ \A h \in DOMAIN onodes0 : onodes[h] = onodes0[h]
         /\ tree[onodes[ret.onode].hoid] = tree0[call.hoid]
    /\ tree = tree0

\* C8 witness: a lookup has failed with enoent while the tree holds other
\* entries.
C8_Witness ==
  /\ call.op = "get_onode" /\ ret.err = "enoent"
  /\ tree # Empty

\* The position of the first identifier of hoids that fails the length check
\* (Len(hoids) + 1 when none does).
FirstTooLarge(hoids) ==
  SetMin({i \in 1..Len(hoids) :
            NameLen(hoids[i]) + NspaceLen(hoids[i]) > MAX_NS_OID_LENGTH}
         \cup {Len(hoids) + 1})

\* C9: Batch fail-fast. get_or_create_onodes fails exactly when one of its
\* identifiers fails get_or_create_onode; with hoids[i] the first such, the
\* error is that one's, no onode is returned, inserts were issued for
\* hoids[1..i-1] and for nothing after, and those entries are in the tree.
C9_BatchFailFast ==
  call.op = "get_or_create_onodes" =>
    LET i == FirstTooLarge(call.hoids)
    IN  /\ ret.err # "ok" <=> i <= Len(call.hoids)
        /\ ret.err # "ok" =>
             /\ ret.err = "value_too_large"
             /\ ret.onodes = <<>> /\ ret.onode = 0
             /\ onodes = onodes0
             /\ HoidsOf(ops, "insert") = SubSeq(call.hoids, 1, i - 1)
             /\ DOMAIN tree = DOMAIN tree0 \cup {call.hoids[j] : j \in 1..(i - 1)}
             /\ \A k \in DOMAIN tree0 : tree[k] = tree0[k]

\* C9 witness: the batch failed at its second identifier and the entry
\* created for the first is in the tree.
C9_Witness ==
  /\ call.op = "get_or_create_onodes" /\ ret.err = "value_too_large"
  /\ FirstTooLarge(call.hoids) > 1
  /\ call.hoids[1] \notin DOMAIN tree0
  /\ call.hoids[1] \in DOMAIN tree

\* C10: Mark-for-deletion is local. erase_onode succeeds, leaves the onode
\* DELETED whatever its status was, changes no other onode, issues no tree
\* operation and leaves the tree as it was.
C10_EraseLocal ==
  call.op = "erase_onode" =>
    /\ ret.err = "ok"
    /\ onodes[call.onode].status = "DELETED"
    /\ onodes = [onodes0 EXCEPT ![call.onode].status = "DELETED"]
    /\ ops = <<>>
    /\ tree = tree0

\* C10 witness: erase_onode on an onode with a pending write, its entry still
\* in the tree.
C10_Witness ==
  /\ call.op = "erase_onode"
  /\ onodes0[call.onode].status = "MUTATED"
  /\ onodes0[call.onode].hoid \in DOMAIN tree

\* C10 second case, erase issued again on a DELETED onode: reached as well.
C10_Repeated ==
  /\ call.op = "erase_onode"
  /\ onodes0[call.onode].status = "DELETED"

\* The names of the tree operations that only read.
ReadOps == {"contains", "find", "lower_bound", "get_next"}

\* C11: Read-only operations. contains_onode, get_onode (also when it fails
\* with enoent) and list_onodes leave every tree entry as it was, key and
\* payload, for every tree and every argument; the tree operations they issue
\* are reads, and no onode that existed is changed.
C11_ReadOnly ==
  call.op \in {"contains_onode", "get_onode", "list_onodes"} =>
    /\ tree = tree0
    /\ \A i \in 1..Len(ops) : ops[i].op \in ReadOps
    /\ \A h \in DOMAIN onodes0 : h \in DOMAIN onodes /\ onodes[h] = onodes0[h]

\* C11 witness: a lookup of an identifier the tree lacks has failed after an
\* earlier lookup produced an onode, and the tree still holds its entries with
\* a payload other than the default.
C11_Witness ==
  /\ call.op = "get_onode" /\ ret.err = "enoent"
  /\ onodes0 # Empty
  /\ \E k \in DOMAIN tree : tree[k] # DefaultLayout

\* C11 second case, a listing that returned identifiers: reached as well.
C11_Listed ==
  /\ call.op = "list_onodes" /\ Len(ret.list) > 1
  /\ tree # Empty

\* C12: Status after get_or_create. When get_or_create_onode succeeds the
\* returned onode is MUTATED and the entry's payload is the default one if the
\* entry was created; it is STABLE and the payload is the one stored before the
\* call if the entry existed.
C12_StatusAfterGetOrCreate ==
  call.op = "get_or_create_onode" /\ ret.err = "ok" =>
    /\ ret.onode \in DOMAIN onodes /\ onodes[ret.onode].hoid = call.hoid
    /\ call.hoid \notin DOMAIN tree0 =>
         /\ ret.created
         /\ onodes[ret.onode].status = "MUTATED"
         /\ tree[call.hoid] = DefaultLayout
    /\ call.hoid \in DOMAIN tree0 =>
         /\ ~ret.created
         /\ onodes[ret.onode].status = "STABLE"
         /\ tree[call.hoid] = tree0[call.hoid]

\* C12 witness: an entry has been created, its onode MUTATED, next to an older
\* entry whose payload is not the default.
C12_Witness ==
  /\ call.op = "get_or_create_onode" /\ ret.err = "ok" /\ ret.created
  /\ onodes[ret.onode].status = "MUTATED"
  /\ tree[call.hoid] = DefaultLayout
  /\ \E k \in DOMAIN tree0 : tree0[k] # DefaultLayout

\* C12 second case, an existing entry with a payload other than the default
\* and an onode for it already marked DELETED: reached as well.
C12_Existing ==
  /\ call.op = "get_or_create_onode" /\ ret.err = "ok" /\ ~ret.created
  /\ onodes[ret.onode].status = "STABLE"
  /\ tree[call.hoid] # DefaultLayout
  /\ call.hoid \in MarkedDeleted(onodes0)

\* What a write-back of the onodes batch[1..n], taken in this order, issues:
\* a recording for a MUTATED onode, an erase for a DELETED one, nothing for a
\* STABLE one.
RECURSIVE WriteBackOps(_, _, _)
WriteBackOps(os, batch, n) ==
  IF n = 0 THEN <<>>
  ELSE LET h == batch[n]
           st == os[h].status
       IN  WriteBackOps(os, batch, n - 1) \o
             (IF st = "MUTATED" THEN <<Op("populate_recorder", os[h].hoid, h)>>
              ELSE IF st = "DELETED" THEN <<Op("erase", os[h].hoid, h)>>
              ELSE <<>>)

\* C13: Write-back is ordered and fail-fast. write_dirty takes the onodes in
\* input order; it fails exactly when the tree fails an erase, and when the
\* erase for onodes[i] fails the pass ends with that error, nothing is recorded
\* or erased for a later position, and what was recorded and erased for the
\* positions before i stays in effect.
C13_WriteBackFailFast ==
  call.op = "write_dirty" =>
    LET i == call.fail
        n == IF i = 0 THEN Len(call.onodes) ELSE i - 1
        done == WriteBackOps(onodes0, call.onodes, n)
    IN  /\ ret.err # "ok" <=> i # 0
        /\ i = 0 => ops = done
        /\ i # 0 =>
             /\ ret.err = "eagain"
             /\ ops = Append(done, Op("erase_failed", onodes0[call.onodes[i]].hoid,
                                      call.onodes[i]))
        /\ DOMAIN tree = DOMAIN tree0 \
             {onodes0[call.onodes[j]].hoid :
                j \in {p \in 1..n : onodes0[call.onodes[p]].status = "DELETED"}}
        /\ \A k \in DOMAIN tree : tree[k] = tree0[k]

\* C13 witness: the erase for the second onode failed after the first one's
\* entry was erased, and a third onode, DELETED and of another entry, was left
\* alone.
C13_Witness ==
  /\ call.op = "write_dirty" /\ call.fail = 2 /\ Len(call.onodes) = 3
  /\ ret.err = "eagain"
  /\ onodes0[call.onodes[1]].status = "DELETED"
  /\ onodes0[call.onodes[1]].hoid \notin DOMAIN tree
  /\ onodes0[call.onodes[3]].status = "DELETED"
  /\ onodes0[call.onodes[3]].hoid \in DOMAIN tree
  /\ onodes0[call.onodes[3]].hoid # onodes0[call.onodes[2]].hoid

\* C14: Termination priority in list_onodes. The end-of-range tests come
\* before the quota test: when the quota runs out at the step at which the
\* cursor reaches tree end or an identifier >= end (the range holds exactly
\* limit identifiers) next-start is end; next-start is the identifier under the
\* cursor, not yet returned, only when the quota is zero and that identifier
\* is below end; with limit 0 the result is empty and next-start is the
\* smallest tree identifier in [start, end), or end when there is none.
C14_TerminationPriority ==
  call.op = "list_onodes" =>
    LET keys == RangeKeys(tree0, call.start, call.end)
        cursor == CursorAfter(tree0, call.start, ret.list)
    IN  /\ Cardinality(keys) = call.limit => ret.next = call.end
        /\ ret.next # call.end =>
             /\ Len(ret.list) = call.limit
             /\ ~cursor.is_end
             /\ ret.next = cursor.ghobj
             /\ ret.next < call.end
             /\ \A i \in 1..Len(ret.list) : ret.list[i] # ret.next
        /\ call.limit = 0 =>
             /\ ret.list = <<>>
             /\ ret.next = IF keys = {} THEN call.end ELSE SetMin(keys)

\* C14 witness: the range holds exactly limit identifiers, the quota ran out
\* with the cursor on a stored identifier >= end, and next-start is end.
C14_Witness ==
  /\ call.op = "list_onodes" /\ call.limit > 0
  /\ Cardinality(RangeKeys(tree0, call.start, call.end)) = call.limit
  /\ Len(ret.list) = call.limit
  /\ ~CursorAfter(tree0, call.start, ret.list).is_end
  /\ CursorAfter(tree0, call.start, ret.list).ghobj >= call.end
  /\ ret.next = call.end

\* C14 second case, limit 0 over a range that holds an identifier above
\* start: reached as well.
C14_ZeroLimit ==
  /\ call.op = "list_onodes" /\ call.limit = 0
  /\ ret.next \in DOMAIN tree0 /\ ret.next > call.start /\ ret.next < call.end

\* The loop variables of the completed list_onodes call as they stood after j
\* identifiers had been emitted.
LoopState(j) ==
  [to_list |-> call.limit - j,
   current_cursor |-> CursorAfter(tree0, call.start, Take(ret.list, j)),
   list |-> Take(ret.list, j),
   next |-> 0,
   ops |-> Take(ops, j + 1),
   done |-> FALSE]

\* C19: list_onodes terminates. One call issues one lower_bound and as many
\* get_next as it returns identifiers, at most min(limit, number of tree
\* entries >= start); every round that does not stop the scan lowers the
\* quota by one, the quota never goes below zero, and the round after the last
\* emitted identifier stops.
C19_ListTerminates ==
  call.op = "list_onodes" =>
    LET n == Len(ret.list)
        above == Cardinality({k \in DOMAIN tree0 : k >= call.start})
        m == Mgr(tree0, onodes0, <<>>)
    IN  /\ Len(ops) = n + 1
        /\ ops[1] = Op("lower_bound", call.start, 0)
        /\ \A i \in 2..(n + 1) : ops[i].op = "get_next"
        /\ n <= call.limit /\ n <= above
        /\ \A j \in 0..(n - 1) :
             LET st == list_step(m, call.end, LoopState(j))
             IN  /\ ~st.done
                 /\ st.to_list = LoopState(j).to_list - 1
                 /\ st.to_list >= 0
                 /\ st = LoopState(j + 1)
        /\ list_step(m, call.end, LoopState(n)).done

\* C19 witness: the scan stopped on the quota after as many get_next calls as
\* the limit allows, with entries left in the tree.
C19_Witness ==
  /\ call.op = "list_onodes" /\ call.limit > 1
  /\ Len(HoidsOf(ops, "get_next")) = call.limit
  /\ Cardinality({k \in DOMAIN tree0 : k >= call.start}) > call.limit
  /\ ret.next # call.end

\* Whether onode h has just taken the status st: it has it now and did not
\* have it, or did not exist, before the last call.
Became(h, st) ==
  /\ onodes[h].status = st
  /\ h \in DOMAIN onodes0 => onodes0[h].status # st

\* The onodes the last call returned.
Returned == (IF ret.onode = 0 THEN {} ELSE {ret.onode}) \cup SeqRange(ret.onodes)

\* C18: Status state machine. Every onode has one of the statuses STABLE,
\* MUTATED, DELETED; an onode becomes DELETED only by erase_onode on it; it
\* becomes MUTATED only by the mutable-layout accessor, used by the caller on
\* that onode or by get_or_create on an entry it has just created.
C18_StatusMachine ==
  \A h \in DOMAIN onodes :
    /\ onodes[h].status \in {"STABLE", "MUTATED", "DELETED"}
    /\ Became(h, "DELETED") => call.op = "erase_onode" /\ call.onode = h
    /\ Became(h, "MUTATED") =>
         \/ call.op = "get_mutable_layout" /\ call.onode = h
         \/ /\ call.op \in {"get_or_create_onode", "get_or_create_onodes"}
            /\ h \in Returned
            /\ onodes[h].hoid \notin DOMAIN tree0
            /\ onodes[h].hoid \in DOMAIN tree
            /\ \A g \in Returned : g < h => onodes[g].hoid # onodes[h].hoid

\* C18 witness: a batch get_or_create has returned a MUTATED onode for the
\* entry it created and a STABLE one for the same identifier named again.
C18_Witness ==
  /\ call.op = "get_or_create_onodes" /\ Len(ret.onodes) = 2
  /\ Became(ret.onodes[1], "MUTATED")
  /\ onodes[ret.onodes[2]].status = "STABLE"
  /\ onodes[ret.onodes[1]].hoid = onodes[ret.onodes[2]].hoid

\* C18 second case, the caller writes through an onode it had marked
\* DELETED, which makes it MUTATED again: reached as well.
C18_Revived ==
  /\ call.op = "get_mutable_layout"
  /\ onodes0[call.onode].status = "DELETED"
  /\ onodes[call.onode].status = "MUTATED"

\* What a scan under way has gathered so far is right: the identifiers of
\* [start, end) from the smallest on, ascending and without repetition, limit
\* per call; all of them once next-start is end.
ScanSoFar ==
  scan.calls > 0 /\ call.limit >= 1 =>
    LET all == Ascending(RangeKeys(tree, scan.start, call.end))
    IN  /\ scan.acc = Take(all, Len(scan.acc))
        /\ ret.next = call.end => scan.acc = all
        /\ ret.next # call.end =>
             /\ Len(scan.acc) = scan.calls * call.limit
             /\ Len(scan.acc) < Len(all)
             /\ ret.next = all[Len(scan.acc) + 1]
        /\ scan.calls <= Len(all) + 1

\* C15: Resumed scan completeness. With the tree unchanged and limit >= 1,
\* calling list_onodes(s, end, limit) from s = start and feeding next-start
\* back as s until next-start is end yields every tree identifier of
\* [start, end) exactly once, in ascending order, and next-start = end is
\* reached after finitely many calls.
C15_ResumedScan ==
  /\ []ScanSoFar
  /\ (scan.calls > 0 /\ call.limit >= 1) ~> (ret.next = call.end)

\* C15 witness: a scan of three calls or more has ended with everything it was
\* to find.
C15_Witness ==
  /\ scan.calls >= 3 /\ call.limit >= 1
  /\ ret.next = call.end
  /\ Len(scan.acc) >= 3
  /\ scan.acc = Ascending(RangeKeys(tree, scan.start, call.end))

\* What the batch method that has just finished would have returned and left
\* behind had it run in one piece on the state it was called in.
InOnePiece ==
  LET m == Mgr(tree0, onodes0, <<>>)
  IN  IF call.op = "write_dirty"
        THEN write_dirty(m, call.onodes, call.fail)
        ELSE get_or_create_onodes(m, call.hoids, call.layout)

\* The number of elements whose operation has completed without error (an
\* error ends the loop, so at most the last completed one has failed).
Succeeded == Cardinality(Completed) - (IF ret.err = "ok" THEN 0 ELSE 1)

\* C16: Sequential batches. While get_or_create_onodes or write_dirty runs,
\* at most one tree operation of the batch is in flight; the operation of
\* element i+1 is not issued before that of element i has completed; so the
\* tree effects occur in input order, and the finished batch leaves what the
\* elements taken one after the other leave.
C16_SequentialBatch ==
  /\ flight.op # "none" =>
       /\ Cardinality(flight.inflight) <= 1
       /\ flight.inflight \subseteq {flight.next - 1}
       /\ Completed = 1..Cardinality(Completed)
       /\ flight.op = "get_or_create_onodes" =>
            HoidsOf(ops, "insert") = SubSeq(call.hoids, 1, Succeeded)
       /\ flight.op = "write_dirty" =>
            Take(ops, Len(ops) - Cardinality(Completed) + Succeeded) =
              WriteBackOps(onodes0, call.onodes, Succeeded)
       /\ ret.err # "ok" => flight.inflight = {} /\ flight.next - 1 = Succeeded + 1
  /\ flight.op = "none" /\ call.op \in {"get_or_create_onodes", "write_dirty"} =>
       /\ tree = InOnePiece.m.tree
       /\ onodes = InOnePiece.m.onodes
       /\ ops = InOnePiece.m.ops
       /\ ret = InOnePiece.ret

\* C16 witness: the operation of the second element is in flight, the first
\* one's has completed and its entry is in the tree.
C16_Witness ==
  /\ flight.op = "get_or_create_onodes"
  /\ flight.inflight = {2}
  /\ call.hoids[1] \notin DOMAIN tree0 /\ call.hoids[1] \in DOMAIN tree
  /\ call.hoids[2] \notin DOMAIN tree
  /\ call.hoids[2] < call.hoids[1]

\* C16 second case, a write_dirty whose second erase is in flight after its
\* first has taken effect: reached as well.
C16_WriteBack ==
  /\ flight.op = "write_dirty"
  /\ flight.inflight = {2}
  /\ HoidsOf(ops, "erase") # <<>>
  /\ onodes[call.onodes[2]].status = "DELETED"
  /\ onodes[call.onodes[2]].hoid \in DOMAIN tree

\* The onodes other than h that stand for the same identifier as h.
Aliases(os, h) == {g \in DOMAIN os : g # h /\ os[g].hoid = os[h].hoid}

\* C17: Consistent shared view. For any two onodes of the same identifier
\* within a transaction, whether copies of one reference or the results of
\* separate get_onode / get_or_create_onode calls, a status change made through
\* one is seen through the other; after erase_onode on one, every onode of
\* that identifier is DELETED, so a write_dirty pass never both erases an
\* identifier and records a payload for it.
C17_SharedView ==
  /\ call.op \in {"erase_onode", "get_mutable_layout"} =>
       \A g \in Aliases(onodes, call.onode) :
          onodes[g].status = onodes[call.onode].status
  /\ call.op = "write_dirty" =>
       SeqRange(HoidsOf(ops, "erase")) \cap
         SeqRange(HoidsOf(ops, "populate_recorder")) = {}

\* What does hold: the status belongs to the onode object. erase_onode and
\* the accessor change the onode they are called on and no other, also none of
\* the same identifier; a write_dirty pass never both erases and records for
\* one onode, however often the vector names it.
C17_PerObject ==
  /\ call.op \in {"erase_onode", "get_mutable_layout"} =>
       \A g \in DOMAIN onodes0 \ {call.onode} : onodes[g] = onodes0[g]
  /\ call.op = "write_dirty" =>
       IssuedFor("erase") \cap IssuedFor("populate_recorder") = {}

\* Reached: erase_onode on one of two onodes obtained for the same entry by
\* separate calls; the other one is still STABLE.
C17_StaleAlias ==
  /\ call.op = "erase_onode"
  /\ \E g \in Aliases(onodes, call.onode) : onodes[g].status = "STABLE"

\* Reached: a write_dirty pass that erases an entry through one onode and
\* records a payload for the same identifier through another.
C17_ErasedAndRecorded ==
  /\ call.op = "write_dirty" /\ ret.err = "ok"
  /\ \E i, j \in 1..Len(ops) :
       /\ ops[i].op = "erase" /\ ops[j].op = "populate_recorder"
       /\ ops[i].hoid = ops[j].hoid
       /\ i < j

\* C20: Readdir reply round trip. decode_payload applied to the bytes
\* encode_payload produced reads the entry count from the position right
\* after the ino field (offset sizeof(ino)) and rebuilds the same ino and the
\* same directory entries, as many and in the same order.
C20_RoundTrip ==
  msg.phase \in {"decoded", "fault"} =>
    /\ msg.phase = "decoded"
    /\ msg.noff = SizeofIno
    /\ msg.rino = msg.ino
    /\ Len(msg.rcontents) = Len(msg.dir_contents)
    /\ msg.rcontents = msg.dir_contents

\* Reached: the decoder took the count from another word of the payload and
\* came out with fewer entries than were sent.
C20_EntriesLost ==
  /\ msg.phase = "decoded"
  /\ msg.noff # SizeofIno
  /\ msg.rino = msg.ino
  /\ Len(msg.rcontents) < Len(msg.dir_contents)

\* Reached: the uninitialised value happened to be sizeof(ino) and the reply
\* came through whole.
C20_Lucky ==
  /\ msg.phase = "decoded"
  /\ msg.noff = SizeofIno
  /\ msg.rino = msg.ino
  /\ msg.rcontents = msg.dir_contents /\ Len(msg.dir_contents) = MaxEntries

====
